---- MODULE Spec2Model ----
(***************************************************************************)
(* Model of the OpenGL driver's main-thread dispatcher and render loop     *)
(* (driver/gl/loop.go): runOnMain, runOnMainAsync, runGL and               *)
(* freeDirtyTextures.                                                      *)
(*                                                                         *)
(* Goroutines: the loop goroutine (runGL), synchronous callers of          *)
(* runOnMain, one goroutine that calls runOnMainAsync several times in a   *)
(* row, the helper goroutine each such call spawns, and the environment    *)
(* (window system, application code touching canvases and settings).       *)
(*                                                                         *)
(* funcQueue is an unbuffered Go channel: a send parks the sender on the   *)
(* channel's FIFO wait queue and completes when the single receiver (the   *)
(* select in runGL) takes it.  The variable funcQueue is that wait queue.  *)
(***************************************************************************)
EXTENDS Integers, Sequences, FiniteSets, TLC

\* ---------------------------------------------------------------- bounds
NSync == 2          \* goroutines that call runOnMain once each
NAsync == 2         \* consecutive runOnMainAsync calls of one goroutine
MaxPuts == 3        \* objects the application queues for texture cleanup in all
MaxTexture == 2     \* texture handles the graphics subsystem hands out
MaxSettings == 1    \* settings changes the application makes
MaxBarCalls == 3    \* Show() and Hide() calls made on the progress bar

\* ------------------------------------------------------- fixed universe
Windows == {"A", "B", "C"}
Master == "A"                       \* the window whose master field is set
Objects == {"o1", "o2"}
Children(o) == IF o = "o1" THEN <<"o2">> ELSE <<>>
CanvasObjects(w) == IF w = "B" THEN {"o1", "o2"} ELSE {}
Callers == 1..NSync
Asyncs == 1..NAsync
Goroutines == 1..MaxBarCalls         \* infiniteProgressLoop goroutines, by spawn order
NoTicker == 0                        \* p.ticker == nil

NoTexture == -1                      \* textures.Load(..) reports ok = false
Nil == 0                             \* funcData.done == nil
LoopDone == -1                       \* the done channel of a call made by the loop goroutine

Act(kind, id) == [kind |-> kind, id |-> id]
Actions == {Act("sync", c) : c \in Callers} \cup {Act("async", k) : k \in Asyncs}
              \cup {Act("nested", k) : k \in Asyncs}
NoCall == [f |-> Act("none", 0), done |-> Nil]

VARIABLES
    loopPc,          \* position of the loop goroutine
    runFlag,         \* var runFlag
    dDone,           \* d.done is closed (Quit was called)
    funcQueue,       \* senders parked on funcQueue, in parking order
    cur,             \* the funcData the loop has received and is running
    callerPc,        \* position of each runOnMain caller
    helperPc,        \* position of the goroutine spawned by the k-th runOnMainAsync
    asyncCalls,      \* how many runOnMainAsync calls the dispatching goroutine makes
    nextAsync,       \* how many of them it has made
    nesting,         \* async actions whose body calls runOnMain(g)
    started,         \* per action: how often its execution began
    finished,        \* per action: how often its execution completed
    signalled,       \* per caller: how often its done channel was sent on
    execLog,         \* actions in the order the loop began executing them
    settingsChange,  \* a value is pending on the settingsChange channel
    settingsMade,    \* settings changes made so far
    fontCache,       \* the font cache holds entries
    windowsArr,      \* backing array of d.windows
    windowsLen,      \* len(d.windows)
    shouldClose,     \* per window: viewport.ShouldClose()
    destroyed,       \* windows whose viewport was destroyed
    dirty,           \* per window: canvas.isDirty()
    i,               \* range index of the tick (1-based)
    n,               \* length the range statement evaluated
    tickLog,         \* operations of the current (or last) tick, in order
    tickStart,       \* d.windows and close flags when the range statement started
    passStart,       \* canvas.refreshQueue when the running freeDirtyTextures call began
    refreshQueue,    \* per window: canvas.refreshQueue
    puts,            \* objects queued on the refreshQueues so far
    textures,        \* the textures map: object -> handle (NoTexture: absent)
    nextTexture,     \* handles handed out so far
    deleteLog,       \* handles passed to gl.DeleteTextures, in order
    ticker,          \* InfProgressBar.ticker (Nil, or the goroutine that made it)
    tickerStopped,   \* tickers on which Stop() was called
    barPc,           \* position of the goroutine that calls Show() and Hide()
    barCalls,        \* Show() and Hide() calls made so far
    lastCall,        \* the last of them that returned
    loopGo,          \* position of each infiniteProgressLoop goroutine
    ranged,          \* per goroutine: the ticker whose channel it ranges over
    barRefreshed     \* a tick has refreshed the renderer

dispatchVars == <<funcQueue, cur, callerPc, helperPc, asyncCalls, nextAsync, nesting,
                  started, finished, signalled, execLog>>
settingsVars == <<settingsChange, settingsMade, fontCache>>
windowVars == <<windowsArr, windowsLen, shouldClose, destroyed, dirty>>
tickVars == <<i, n, tickLog, tickStart, passStart>>
textureVars == <<refreshQueue, puts, textures, nextTexture, deleteLog>>
barVars == <<ticker, tickerStopped, barPc, barCalls, lastCall, loopGo, ranged,
             barRefreshed>>
driverVars == <<loopPc, runFlag, dDone, dispatchVars, settingsVars, windowVars, tickVars,
                textureVars>>
vars == <<driverVars, barVars>>

\* d.windows as the slice the code sees
windows == SubSeq(windowsArr, 1, windowsLen)

Range(s) == {s[j] : j \in 1..Len(s)}

\* func running() bool
running == runFlag

\* ------------------------------------------------------------ dispatcher

\* runOnMain(f), the running() test (loop.go 35-46): inline when the flag is
\* clear, otherwise park on funcQueue with a fresh done channel.
runOnMain(c) ==
    /\ loopPc # "panicked"
    /\ callerPc[c] = "start"
    /\ IF ~running
         THEN /\ callerPc' = [callerPc EXCEPT ![c] = "inline"]
              /\ started' = [started EXCEPT ![Act("sync", c)] = @ + 1]
              /\ UNCHANGED funcQueue
         ELSE /\ callerPc' = [callerPc EXCEPT ![c] = "parked"]
              /\ funcQueue' = Append(funcQueue, [f |-> Act("sync", c), done |-> c])
              /\ UNCHANGED started
    /\ UNCHANGED <<loopPc, runFlag, dDone, cur, helperPc, asyncCalls, nextAsync, nesting,
                   finished, signalled, execLog, settingsVars, windowVars, tickVars,
                   textureVars>>
    /\ UNCHANGED barVars

\* runOnMain without its else: after the inline f() the call goes on to
\* queue f as well
runOnMainInlineThenQueue(c) ==
    /\ loopPc # "panicked"
    /\ callerPc[c] = "inline"
    /\ callerPc' = [callerPc EXCEPT ![c] = "parked"]
    /\ finished' = [finished EXCEPT ![Act("sync", c)] = @ + 1]
    /\ funcQueue' = Append(funcQueue, [f |-> Act("sync", c), done |-> c])
    /\ UNCHANGED <<loopPc, runFlag, dDone, cur, helperPc, asyncCalls, nextAsync,
                   nesting, started, signalled, execLog, settingsVars, windowVars,
                   tickVars, textureVars>>
    /\ UNCHANGED barVars

\* the inline f() of runOnMain returns, and runOnMain with it (loop.go 39)
runOnMainInlineReturn(c) ==
    /\ loopPc # "panicked"
    /\ callerPc[c] = "inline"
    /\ callerPc' = [callerPc EXCEPT ![c] = "returned"]
    /\ finished' = [finished EXCEPT ![Act("sync", c)] = @ + 1]
    /\ UNCHANGED <<loopPc, runFlag, dDone, funcQueue, cur, helperPc, asyncCalls, nextAsync,
                   nesting, started, signalled, execLog, settingsVars, windowVars,
                   tickVars, textureVars>>
    /\ UNCHANGED barVars

\* runOnMainAsync(f) (loop.go 48-52): spawn the helper goroutine and return
runOnMainAsync ==
    /\ loopPc # "panicked"
    /\ nextAsync < asyncCalls
    /\ nextAsync' = nextAsync + 1
    /\ helperPc' = [helperPc EXCEPT ![nextAsync + 1] = "spawned"]
    /\ UNCHANGED <<loopPc, runFlag, dDone, funcQueue, cur, callerPc, asyncCalls, nesting,
                   started, finished, signalled, execLog, settingsVars, windowVars,
                   tickVars, textureVars>>
    /\ UNCHANGED barVars

\* a helper that sends only when running() holds and otherwise gives up
asyncHelperSendIfRunning(k) ==
    /\ loopPc # "panicked"
    /\ helperPc[k] = "spawned"
    /\ helperPc' = [helperPc EXCEPT ![k] = IF running THEN "parked" ELSE "done"]
    /\ funcQueue' = IF running
                      THEN Append(funcQueue, [f |-> Act("async", k), done |-> Nil])
                      ELSE funcQueue
    /\ UNCHANGED <<loopPc, runFlag, dDone, cur, callerPc, asyncCalls, nextAsync, nesting,
                   started, finished, signalled, execLog, settingsVars, windowVars,
                   tickVars, textureVars>>
    /\ UNCHANGED barVars

\* the helper goroutine reaches its send (loop.go 50) and parks on funcQueue
asyncHelperSend(k) ==
    /\ loopPc # "panicked"
    /\ helperPc[k] = "spawned"
    /\ helperPc' = [helperPc EXCEPT ![k] = "parked"]
    /\ funcQueue' = Append(funcQueue, [f |-> Act("async", k), done |-> Nil])
    /\ UNCHANGED <<loopPc, runFlag, dDone, cur, callerPc, asyncCalls, nextAsync, nesting,
                   started, finished, signalled, execLog, settingsVars, windowVars,
                   tickVars, textureVars>>
    /\ UNCHANGED barVars

\* the sender of a received funcData is released from its send
Released(fd) ==
    /\ callerPc' = IF fd.f.kind = "sync"
                     THEN [callerPc EXCEPT ![fd.f.id] = "wait"] ELSE callerPc
    /\ helperPc' = IF fd.f.kind = "async"
                     THEN [helperPc EXCEPT ![fd.f.id] = "done"] ELSE helperPc

\* ------------------------------------------------------------------ loop

\* runGL up to the for statement (loop.go 54-61)
runGLStart ==
    /\ loopPc = "idle"
    /\ loopPc' = "select"
    /\ runFlag' = TRUE
    /\ UNCHANGED <<dDone, dispatchVars, settingsVars, windowVars, tickVars, textureVars>>
    /\ UNCHANGED barVars

\* case <-d.done (loop.go 65-68): fps.Stop(), glfw.Terminate(), return
runGLDone ==
    /\ loopPc = "select"
    /\ dDone
    /\ loopPc' = "exited"
    /\ UNCHANGED <<runFlag, dDone, dispatchVars, settingsVars, windowVars, tickVars,
                   textureVars>>
    /\ UNCHANGED barVars

\* the received call signalled before f.f() is run
runGLFuncSignalFirst ==
    /\ loopPc = "select"
    /\ funcQueue # <<>>
    /\ LET fd == Head(funcQueue) IN
         /\ cur' = fd
         /\ funcQueue' = Tail(funcQueue)
         /\ Released(fd)
         /\ started' = IF fd.done # Nil THEN started ELSE [started EXCEPT ![fd.f] = @ + 1]
         /\ execLog' = IF fd.done # Nil THEN execLog ELSE Append(execLog, fd.f)
         /\ loopPc' = IF fd.done # Nil THEN "signal" ELSE "exec"
    /\ UNCHANGED <<runFlag, dDone, asyncCalls, nextAsync, nesting, finished, signalled,
                   settingsVars, windowVars, tickVars, textureVars>>
    /\ UNCHANGED barVars

\* case f := <-funcQueue (loop.go 69-70): receive from the first parked
\* sender and enter f.f()
runGLFunc ==
    /\ loopPc = "select"
    /\ funcQueue # <<>>
    /\ LET fd == Head(funcQueue) IN
         /\ cur' = fd
         /\ funcQueue' = Tail(funcQueue)
         /\ Released(fd)
         /\ started' = [started EXCEPT ![fd.f] = @ + 1]
         /\ execLog' = Append(execLog, fd.f)
    /\ loopPc' = "exec"
    /\ UNCHANGED <<runFlag, dDone, asyncCalls, nextAsync, nesting, finished, signalled,
                   settingsVars, windowVars, tickVars, textureVars>>
    /\ UNCHANGED barVars

\* the body of a queued action calls runOnMain(g) on the loop goroutine
\* (loop.go 35-46 reached from loop.go 70)
runGLFuncNested ==
    /\ loopPc = "exec"
    /\ cur.f.kind = "async"
    /\ cur.f.id \in nesting
    /\ started[Act("nested", cur.f.id)] = 0
    /\ IF ~running
         THEN /\ started' = [started EXCEPT ![Act("nested", cur.f.id)] = @ + 1]
              /\ finished' = [finished EXCEPT ![Act("nested", cur.f.id)] = @ + 1]
              /\ UNCHANGED <<loopPc, funcQueue>>
         ELSE /\ funcQueue' = Append(funcQueue,
                                     [f |-> Act("nested", cur.f.id), done |-> LoopDone])
              /\ loopPc' = "blocked"
              /\ UNCHANGED <<started, finished>>
    /\ UNCHANGED <<runFlag, dDone, cur, callerPc, helperPc, asyncCalls, nextAsync, nesting,
                   signalled, execLog, settingsVars, windowVars, tickVars, textureVars>>
    /\ UNCHANGED barVars

\* f.f() returns (loop.go 70-71)
runGLFuncReturn ==
    /\ loopPc = "exec"
    /\ cur.f.kind = "async" /\ cur.f.id \in nesting
         => finished[Act("nested", cur.f.id)] > 0
    /\ finished' = [finished EXCEPT ![cur.f] = @ + 1]
    /\ loopPc' = IF cur.done # Nil THEN "signal" ELSE "select"
    /\ cur' = IF cur.done # Nil THEN cur ELSE NoCall
    /\ UNCHANGED <<runFlag, dDone, funcQueue, callerPc, helperPc, asyncCalls, nextAsync,
                   nesting, started, signalled, execLog, settingsVars, windowVars,
                   tickVars, textureVars>>
    /\ UNCHANGED barVars

\* f.done <- true meets the caller's <-done (loop.go 72 and 44)
runGLSignal ==
    /\ loopPc = "signal"
    /\ cur.done \in Callers
    /\ callerPc[cur.done] = "wait"
    /\ callerPc' = [callerPc EXCEPT ![cur.done] = "returned"]
    /\ signalled' = [signalled EXCEPT ![cur.done] = @ + 1]
    /\ loopPc' = "select"
    /\ cur' = NoCall
    /\ UNCHANGED <<runFlag, dDone, funcQueue, helperPc, asyncCalls, nextAsync, nesting,
                   started, finished, execLog, settingsVars, windowVars, tickVars,
                   textureVars>>
    /\ UNCHANGED barVars

\* case <-settingsChange (loop.go 74-75): clearFontCache()
runGLSettings ==
    /\ loopPc = "select"
    /\ settingsChange
    /\ settingsChange' = FALSE
    /\ fontCache' = FALSE
    /\ UNCHANGED <<loopPc, runFlag, dDone, dispatchVars, settingsMade, windowVars, tickVars,
                   textureVars>>
    /\ UNCHANGED barVars

\* ------------------------------------------------------- texture cleanup

\* an entry of the tick's log: the operation and the window (or object) it is on
Op(op, win) == [op |-> op, win |-> win]

\* canvas.walkObjects(object, pos, f): the object, then its children's walks
RECURSIVE WalkFrom(_, _)
WalkFrom(todo, depth) ==
    IF todo = <<>> \/ depth = 0 THEN <<>>
    ELSE <<Head(todo)>> \o WalkFrom(Children(Head(todo)), depth - 1)
                        \o WalkFrom(Tail(todo), depth)
walkObjects(object) == WalkFrom(<<object>>, Cardinality(Objects))

\* freeWalked without its textures.Delete(obj)
freeWalkedKeepsEntry(st, object, obj) ==
    LET texture == st.tex[object] IN
      IF texture # NoTexture /\ texture > 0
        THEN [tex |-> st.tex,
              del |-> Append(st.del, [texture |-> texture, object |-> object, obj |-> obj])]
        ELSE st

\* the closure freeWalked (loop.go 117-126) applied to one walked obj; it
\* loads the entry of the dequeued object and deletes the key of obj.
\* st = [tex |-> the textures map, del |-> the DeleteTextures calls so far,
\* each with the handle, the object that was loaded and the key that was deleted]
freeWalked(st, object, obj) ==
    LET texture == st.tex[object] IN
      IF texture # NoTexture /\ texture > 0
        THEN [tex |-> [st.tex EXCEPT ![obj] = NoTexture],
              del |-> Append(st.del, [texture |-> texture, object |-> object, obj |-> obj])]
        ELSE st

RECURSIVE FreeWalk(_, _, _)
FreeWalk(st, object, walk) ==
    IF walk = <<>> THEN st
    ELSE FreeWalk(freeWalked(st, object, Head(walk)), object, Tail(walk))

\* one round of the for/select of freeDirtyTextures that receives an
\* object (loop.go 116-127)
freeDirtyTexturesOne ==
    /\ loopPc = "free"
    /\ LET win == windowsArr[i] IN
         /\ refreshQueue[win] # <<>>
         /\ LET object == Head(refreshQueue[win])
                st == FreeWalk([tex |-> textures, del |-> deleteLog], object,
                               walkObjects(object))
            IN /\ textures' = st.tex
               /\ deleteLog' = st.del
         /\ refreshQueue' = [refreshQueue EXCEPT ![win] = Tail(@)]
         /\ tickLog' = Append(tickLog, Op("free", Head(refreshQueue[win])))
    /\ UNCHANGED <<loopPc, runFlag, dDone, dispatchVars, settingsVars, windowVars, i, n,
                   tickStart, passStart, puts, nextTexture>>
    /\ UNCHANGED barVars

\* a freeDirtyTextures call that returned before its select took the
\* default case
freeDirtyTexturesReturnEarly == loopPc = "free"

\* the round of the for/select of freeDirtyTextures that finds nothing to
\* receive: default, return (loop.go 128-129)
freeDirtyTexturesReturn ==
    /\ loopPc = "free"
    /\ refreshQueue[windowsArr[i]] = <<>>

\* ------------------------------------------------------------- the tick

\* append(d.windows[:i], d.windows[i+1:]...) for the 1-based index idx, in
\* place on the backing array; ok is FALSE where the slice expression
\* d.windows[i+1:] is out of range (i+1 > len(d.windows))
Splice(arr, len, idx) ==
    IF idx > len
      THEN [ok |-> FALSE, arr |-> arr, len |-> len]
      ELSE [ok |-> TRUE,
            arr |-> [j \in 1..Len(arr) |-> IF j >= idx /\ j < len THEN arr[j + 1] ELSE arr[j]],
            len |-> len - 1]

\* canvas.paint(size): clears the dirty flag and caches a texture for every
\* object of the canvas that has none (handle 0 once the handles are used up)
RECURSIVE PaintTextures(_, _, _)
PaintTextures(tex, next, objs) ==
    IF objs = {} THEN [tex |-> tex, next |-> next]
    ELSE LET o == CHOOSE x \in objs : TRUE IN
           IF tex[o] # NoTexture
             THEN PaintTextures(tex, next, objs \ {o})
             ELSE IF next < MaxTexture
               THEN PaintTextures([tex EXCEPT ![o] = next + 1], next + 1, objs \ {o})
               ELSE PaintTextures([tex EXCEPT ![o] = 0], next, objs \ {o})

\* glfw.PollEvents() and the range statement (loop.go 76-78); the window
\* system raises the close flag of any of the open windows
runGLTick ==
    /\ loopPc = "select"
    /\ \E closing \in SUBSET Range(windows) :
         /\ shouldClose' = [w \in Windows |-> shouldClose[w] \/ w \in closing]
         /\ tickStart' = [windows |-> windows,
                          close |-> {w \in Range(windows) : shouldClose[w] \/ w \in closing},
                          dirty |-> {w \in Range(windows) : dirty[w]}]
    /\ i' = 1
    /\ n' = windowsLen
    /\ tickLog' = <<Op("poll", "-")>>
    /\ loopPc' = IF windowsLen = 0 THEN "tickEnd" ELSE "free"
    /\ passStart' = IF windowsLen = 0 THEN <<>> ELSE refreshQueue[windowsArr[1]]
    /\ UNCHANGED <<runFlag, dDone, dispatchVars, settingsVars, windowsArr, windowsLen,
                   destroyed, dirty, textureVars>>
    /\ UNCHANGED barVars

\* the loop moves on to the next window of the range, or back to the select
NextWindow ==
    /\ i' = i + 1
    /\ loopPc' = IF i + 1 > n THEN "tickEnd" ELSE "free"

\* d.Quit(): closes d.done
Quit == dDone' = TRUE

\* the rest of one iteration of the range (loop.go 78-108) once
\* freeDirtyTextures found the queue empty (loop.go 128-129).  A viewport
\* that was destroyed answers ShouldClose() with either value, and making
\* its context current either crashes or goes through.  The next iteration
\* starts with the freeDirtyTextures call on the next canvas (loop.go 81-82).
runGLWindow ==
    /\ freeDirtyTexturesReturn
    /\ LET win == windowsArr[i]
           drained == Append(tickLog, Op("drain", win))
       IN
         /\ \E closeSeen \in (IF win \in destroyed THEN BOOLEAN ELSE {shouldClose[win]}),
               crash \in (IF win \in destroyed THEN BOOLEAN ELSE {FALSE}) :
              IF closeSeen
                THEN LET sp == Splice(windowsArr, windowsLen, i) IN
                       IF sp.ok
                         THEN /\ windowsArr' = sp.arr
                              /\ windowsLen' = sp.len
                              /\ destroyed' = destroyed \cup {win}
                              /\ tickLog' = drained \o <<Op("remove", win), Op("destroy", win)>>
                                              \o (IF win = Master THEN <<Op("quit", win)>>
                                                  ELSE <<>>)
                              /\ IF win = Master THEN Quit ELSE UNCHANGED dDone
                              /\ NextWindow
                              /\ UNCHANGED <<dirty, textures, nextTexture>>
                         ELSE /\ loopPc' = "panicked"
                              /\ tickLog' = Append(drained, Op("panic", win))
                              /\ UNCHANGED <<windowsArr, windowsLen, destroyed, dDone, i,
                                             dirty, textures, nextTexture>>
                ELSE IF ~dirty[win]
                  THEN /\ tickLog' = Append(drained, Op("clean", win))
                       /\ NextWindow
                       /\ UNCHANGED <<windowsArr, windowsLen, destroyed, dDone, dirty,
                                      textures, nextTexture>>
                  ELSE IF crash
                    THEN /\ loopPc' = "panicked"
                         /\ tickLog' = Append(drained, Op("crash", win))
                         /\ UNCHANGED <<windowsArr, windowsLen, destroyed, dDone, i,
                                        dirty, textures, nextTexture>>
                    ELSE LET p == PaintTextures(textures, nextTexture, CanvasObjects(win)) IN
                         /\ tickLog' = drained \o <<Op("current", win), Op("paint", win),
                                                    Op("swap", win), Op("detach", win)>>
                         /\ dirty' = [dirty EXCEPT ![win] = FALSE]
                         /\ textures' = p.tex
                         /\ nextTexture' = p.next
                         /\ NextWindow
                         /\ UNCHANGED <<windowsArr, windowsLen, destroyed, dDone>>
    /\ passStart' = IF loopPc' = "free" THEN refreshQueue[windowsArr'[i']] ELSE <<>>
    /\ UNCHANGED <<runFlag, dispatchVars, settingsVars, shouldClose, n,
                   tickStart, refreshQueue, puts, deleteLog>>
    /\ UNCHANGED barVars

NoTick == [windows |-> <<>>, close |-> {}, dirty |-> {}]

\* the range statement is exhausted and the for statement returns to the
\* select (loop.go 108-110, 63-64)
runGLTickEnd ==
    /\ loopPc = "tickEnd"
    /\ loopPc' = "select"
    /\ i' = 1
    /\ n' = 0
    /\ tickLog' = <<>>
    /\ tickStart' = NoTick
    /\ passStart' = <<>>
    /\ UNCHANGED <<runFlag, dDone, dispatchVars, settingsVars, windowVars, textureVars>>
    /\ UNCHANGED barVars

\* ------------------------------------------------------- the environment

\* application code marks a canvas as changed
setDirty(w) ==
    /\ loopPc # "panicked"
    /\ ~dirty[w]
    /\ w \in Range(windows)
    /\ dirty' = [dirty EXCEPT ![w] = TRUE]
    /\ UNCHANGED <<loopPc, runFlag, dDone, dispatchVars, settingsVars, windowsArr,
                   windowsLen, shouldClose, destroyed, tickVars, textureVars>>
    /\ UNCHANGED barVars

\* application code queues an object of a canvas for texture cleanup
refreshQueuePut(w, o) ==
    /\ loopPc # "panicked"
    /\ w \in Range(windows)
    /\ o \in CanvasObjects(w)
    /\ puts < MaxPuts
    /\ puts' = puts + 1
    /\ refreshQueue' = [refreshQueue EXCEPT ![w] = Append(@, o)]
    /\ UNCHANGED <<loopPc, runFlag, dDone, dispatchVars, settingsVars, windowVars, tickVars,
                   textures, nextTexture, deleteLog>>
    /\ UNCHANGED barVars

\* the settings service sends on the channel runGL registered
settingsChanged ==
    /\ loopPc \notin {"idle", "panicked", "exited"}
    /\ ~settingsChange
    /\ settingsMade < MaxSettings
    /\ settingsChange' = TRUE
    /\ settingsMade' = settingsMade + 1
    /\ UNCHANGED <<loopPc, runFlag, dDone, dispatchVars, fontCache, windowVars, tickVars,
                   textureVars>>
    /\ UNCHANGED barVars

\* the application asks the driver to quit
appQuit ==
    /\ loopPc # "panicked"
    /\ ~dDone
    /\ Quit
    /\ UNCHANGED <<loopPc, runFlag, dispatchVars, settingsVars, windowVars, tickVars,
                   textureVars>>
    /\ UNCHANGED barVars

\* ------------------------------------------------ the InfProgressBar
\* (widget/infprogressbar.go).  p.ticker is read and written by the calling
\* goroutine and by every infiniteProgressLoop goroutine with no
\* synchronisation; the steps below are the single reads and writes of the
\* field, interleaved in every order.

\* NewInfiniteProgressBar(): &InfProgressBar{}, no ticker, no goroutine
NewInfiniteProgressBar ==
    /\ ticker = NoTicker
    /\ tickerStopped = {}
    /\ barPc = "idle"
    /\ barCalls = 0
    /\ lastCall = "none"
    /\ loopGo = [g \in Goroutines |-> "none"]
    /\ ranged = [g \in Goroutines |-> NoTicker]
    /\ barRefreshed = FALSE

\* a goroutine of the widget dereferenced a nil ticker
BarPanicked == \E g \in Goroutines : loopGo[g] = "panicked"

Spawned == {g \in Goroutines : loopGo[g] # "none"}

\* Start(): go p.infiniteProgressLoop() when p.ticker is nil
Start ==
    loopGo' = IF ticker = NoTicker
                THEN [loopGo EXCEPT ![Cardinality(Spawned) + 1] = "spawned"]
                ELSE loopGo

\* Show(): p.Start(), p.show(p)
Show ==
    /\ ~BarPanicked
    /\ barPc = "idle"
    /\ barCalls < MaxBarCalls
    /\ barCalls' = barCalls + 1
    /\ Start
    /\ lastCall' = "Show"
    /\ UNCHANGED <<driverVars, ticker, tickerStopped, barPc, ranged, barRefreshed>>

\* Hide() up to the test of Stop(): with no ticker Stop() does nothing and
\* Hide() returns after p.hide(p)
Hide ==
    /\ ~BarPanicked
    /\ barPc = "idle"
    /\ barCalls < MaxBarCalls
    /\ barCalls' = barCalls + 1
    /\ IF ticker = NoTicker
         THEN /\ lastCall' = "Hide"
              /\ UNCHANGED barPc
         ELSE /\ barPc' = "stop"
              /\ UNCHANGED lastCall
    /\ UNCHANGED <<driverVars, ticker, tickerStopped, loopGo, ranged, barRefreshed>>

\* Stop(): p.ticker.Stop(), on the ticker the field holds now
StopTicker ==
    /\ ~BarPanicked
    /\ barPc = "stop"
    /\ tickerStopped' = tickerStopped \cup {ticker}
    /\ barPc' = "clear"
    /\ UNCHANGED <<driverVars, ticker, barCalls, lastCall, loopGo, ranged, barRefreshed>>

\* Stop(): p.ticker = nil; Hide() returns after p.hide(p)
StopClear ==
    /\ ~BarPanicked
    /\ barPc = "clear"
    /\ ticker' = NoTicker
    /\ barPc' = "idle"
    /\ lastCall' = "Hide"
    /\ UNCHANGED <<driverVars, tickerStopped, barCalls, loopGo, ranged, barRefreshed>>

\* infiniteProgressLoop: p.ticker = time.NewTicker(infiniteRefreshRate)
infiniteProgressLoopInit(g) ==
    /\ ~BarPanicked
    /\ loopGo[g] = "spawned"
    /\ ticker' = g
    /\ loopGo' = [loopGo EXCEPT ![g] = "made"]
    /\ UNCHANGED <<driverVars, tickerStopped, barPc, barCalls, lastCall, ranged,
                   barRefreshed>>

\* infiniteProgressLoop: the range statement evaluates p.ticker.C; with the
\* field nil again this is a nil dereference
infiniteProgressLoopRange(g) ==
    /\ ~BarPanicked
    /\ loopGo[g] = "made"
    /\ IF ticker = NoTicker
         THEN /\ loopGo' = [loopGo EXCEPT ![g] = "panicked"]
              /\ UNCHANGED ranged
         ELSE /\ loopGo' = [loopGo EXCEPT ![g] = "ranging"]
              /\ ranged' = [ranged EXCEPT ![g] = ticker]
    /\ UNCHANGED <<driverVars, ticker, tickerStopped, barPc, barCalls, lastCall,
                   barRefreshed>>

\* infiniteProgressLoop: a tick arrives and Renderer(p).Refresh() runs; a
\* stopped ticker sends no tick and its channel is never closed, so the
\* goroutine stays in the range statement
infiniteProgressLoopTick(g) ==
    /\ ~BarPanicked
    /\ loopGo[g] = "ranging"
    /\ ranged[g] \notin tickerStopped
    /\ barRefreshed' = TRUE
    /\ UNCHANGED <<driverVars, ticker, tickerStopped, barPc, barCalls, lastCall, loopGo,
                   ranged>>

\* ------------------------------------------------------- specifications

WindowLists == {<<"A", "B", "C">>, <<"B", "A", "C">>, <<"B", "C", "A">>}

InitCommon ==
    /\ loopPc = "idle"
    /\ runFlag = FALSE
    /\ dDone = FALSE
    /\ funcQueue = <<>>
    /\ cur = NoCall
    /\ helperPc = [k \in Asyncs |-> "none"]
    /\ nextAsync = 0
    /\ started = [a \in Actions |-> 0]
    /\ finished = [a \in Actions |-> 0]
    /\ signalled = [c \in Callers |-> 0]
    /\ execLog = <<>>
    /\ settingsChange = FALSE
    /\ settingsMade = 0
    /\ fontCache = TRUE
    /\ windowsLen = Len(windowsArr)
    /\ shouldClose = [w \in Windows |-> FALSE]
    /\ destroyed = {}
    /\ dirty = [w \in Windows |-> FALSE]
    /\ i = 1
    /\ n = 0
    /\ tickLog = <<>>
    /\ tickStart = NoTick
    /\ passStart = <<>>
    /\ refreshQueue = [w \in Windows |-> <<>>]
    /\ puts = 0
    /\ textures = [o \in Objects |-> NoTexture]
    /\ nextTexture = 0
    /\ deleteLog = <<>>
    /\ NewInfiniteProgressBar

\* a program that dispatches work and opens no window
InitDispatch ==
    /\ windowsArr = <<>>
    /\ callerPc = [c \in Callers |-> "start"]
    /\ asyncCalls = NAsync
    /\ nesting \in {{}, {1}}
    /\ InitCommon

\* a program that opens windows and dispatches no work
InitRender ==
    /\ windowsArr \in WindowLists
    /\ callerPc = [c \in {} |-> "start"]
    /\ asyncCalls = 0
    /\ nesting = {}
    /\ InitCommon

\* the same with two windows: the master and the window whose canvas has
\* objects
InitTexture ==
    /\ windowsArr \in {<<"A", "B">>, <<"B", "A">>}
    /\ callerPc = [c \in {} |-> "start"]
    /\ asyncCalls = 0
    /\ nesting = {}
    /\ InitCommon

\* a program that only shows and hides a progress bar
InitBar ==
    /\ windowsArr = <<>>
    /\ callerPc = [c \in {} |-> "start"]
    /\ asyncCalls = 0
    /\ nesting = {}
    /\ InitCommon

Init == InitDispatch \/ InitRender \/ InitTexture

\* the program's goroutines that dispatch work, the loop serving them, the
\* settings service and the application's own Quit
NextDispatch ==
    \/ \E c \in DOMAIN callerPc : runOnMain(c)
    \/ \E c \in DOMAIN callerPc : runOnMainInlineReturn(c)
    \/ runOnMainAsync
    \/ \E k \in Asyncs : asyncHelperSend(k)
    \/ runGLStart
    \/ runGLDone
    \/ runGLFunc
    \/ runGLFuncNested
    \/ runGLFuncReturn
    \/ runGLSignal
    \/ runGLSettings
    \/ runGLTick
    \/ runGLTickEnd
    \/ settingsChanged
    \/ appQuit

\* the loop serving its windows, the window system and the application
\* code that touches the canvases
NextRender ==
    \/ runGLStart
    \/ runGLDone
    \/ runGLTick
    \/ freeDirtyTexturesOne
    \/ runGLWindow
    \/ runGLTickEnd
    \/ \E w \in Windows : setDirty(w)
    \/ \E w \in Windows, o \in Objects : refreshQueuePut(w, o)

\* a goroutine showing and hiding a progress bar, and the goroutines the
\* bar spawns
NextBar ==
    \/ Show
    \/ Hide
    \/ StopTicker
    \/ StopClear
    \/ \E g \in Goroutines : infiniteProgressLoopInit(g)
    \/ \E g \in Goroutines : infiniteProgressLoopRange(g)
    \/ \E g \in Goroutines : infiniteProgressLoopTick(g)

Next == NextDispatch \/ NextRender \/ NextBar

Spec == Init /\ [][Next]_vars
SpecDispatch == InitDispatch /\ [][NextDispatch]_vars
SpecRender == InitRender /\ [][NextRender]_vars
SpecTexture == InitTexture /\ [][NextRender]_vars
SpecBar == InitBar /\ [][NextBar]_vars

\* The loop goroutine keeps running while it has a step to take, and the
\* select of runGL chooses at random among its ready cases, so a case that is
\* ready again and again is eventually taken.
LoopFairness ==
    /\ WF_vars(runGLStart)
    /\ WF_vars(freeDirtyTexturesOne)
    /\ WF_vars(runGLWindow)
    /\ WF_vars(runGLTickEnd)
    /\ SF_vars(runGLTick)
    /\ SF_vars(runGLDone)
LiveRender == InitRender /\ [][NextRender]_vars /\ LoopFairness

\* the goroutine that calls runOnMain in the program below
LiveCallers == {1}

\* a program that dispatches actions that all terminate: no action calls
\* runOnMain from inside the loop
InitLive ==
    /\ windowsArr = <<>>
    /\ callerPc = [c \in LiveCallers |-> "start"]
    /\ asyncCalls = NAsync
    /\ nesting = {}
    /\ InitCommon

NextLive ==
    \/ \E c \in DOMAIN callerPc : runOnMain(c)
    \/ \E c \in DOMAIN callerPc : runOnMainInlineReturn(c)
    \/ runOnMainAsync
    \/ \E k \in Asyncs : asyncHelperSend(k)
    \/ runGLStart
    \/ runGLDone
    \/ runGLFunc
    \/ runGLFuncReturn
    \/ runGLSignal
    \/ runGLTick
    \/ runGLTickEnd
    \/ appQuit

\* Every goroutine that can take a step takes it (the Go scheduler starves
\* no runnable goroutine), every action returns, and the select of runGL
\* chooses at random among its ready cases.  Nothing obliges the
\* application to call runOnMain, runOnMainAsync or Quit.
DispatchFairness ==
    /\ WF_vars(runGLStart)
    /\ WF_vars(runGLFuncReturn)
    /\ WF_vars(runGLSignal)
    /\ WF_vars(runGLTickEnd)
    /\ SF_vars(runGLFunc)
    /\ SF_vars(runGLDone)
    /\ SF_vars(runGLTick)
    /\ \A k \in Asyncs : WF_vars(asyncHelperSend(k))
    /\ \A c \in LiveCallers : WF_vars(runOnMainInlineReturn(c))
LiveDispatch == InitLive /\ [][NextLive]_vars /\ DispatchFairness

\* ------------------------------------------------------------ properties

SyncAct(c) == Act("sync", c)
ThroughQueue(c) == \E p \in 1..Len(execLog) : execLog[p] = SyncAct(c)

\* C1: the loop executes the actions one goroutine dispatched with
\* runOnMainAsync in the order of the runOnMainAsync calls.
C1_AsyncFIFO ==
    \A p, q \in 1..Len(execLog) :
        (p < q /\ execLog[p].kind = "async" /\ execLog[q].kind = "async")
            => execLog[p].id < execLog[q].id

\* C2: a runOnMain call that has returned has had its action fully executed,
\* whether it ran inline or was dequeued by the loop.
C2_ReturnAfterExecution ==
    \A c \in DOMAIN callerPc :
        callerPc[c] = "returned" => finished[SyncAct(c)] >= 1

\* one call returned after running inline, another after going through the queue
C2_Witness ==
    \E c, e \in DOMAIN callerPc :
        /\ callerPc[c] = "returned" /\ ~ThroughQueue(c)
        /\ callerPc[e] = "returned" /\ ThroughQueue(e) /\ signalled[e] = 1

\* C3: an action passed to runOnMain is executed exactly once (never twice,
\* and once by the time the call has returned); a queued one is not executed
\* while its call is still parked on the queue, and its done channel is
\* signalled exactly once, after the execution.
C3_ExactlyOnce ==
    \A c \in DOMAIN callerPc :
        /\ started[SyncAct(c)] <= 1
        /\ finished[SyncAct(c)] <= started[SyncAct(c)]
        /\ signalled[c] <= finished[SyncAct(c)]
        /\ callerPc[c] = "returned" => finished[SyncAct(c)] = 1
        /\ callerPc[c] = "parked" => started[SyncAct(c)] = 0
        /\ callerPc[c] = "wait" => (ThroughQueue(c) /\ signalled[c] = 0)
        /\ (callerPc[c] = "returned" /\ ThroughQueue(c)) => signalled[c] = 1
        /\ ~ThroughQueue(c) => signalled[c] = 0

\* a queued call has been executed, signalled and has returned while another
\* call is still parked
C3_Witness ==
    \E c, e \in DOMAIN callerPc :
        /\ callerPc[c] = "returned" /\ ThroughQueue(c) /\ signalled[c] = 1
        /\ finished[SyncAct(c)] = 1
        /\ callerPc[e] = "parked"

\* C4: runOnMain(g) called from an action the loop is executing runs g inline
\* and never queues it: the loop goroutine is never blocked sending on
\* funcQueue.
C4_ReentrantInline ==
    /\ loopPc # "blocked"
    /\ \A p \in 1..Len(funcQueue) : funcQueue[p].f.kind # "nested"

\* C10: running() is true exactly while the loop has started and not exited.
C10_RunningIffLoopRuns ==
    running <=> (loopPc \notin {"idle", "exited"})

Logged(op, w) == \E p \in 1..Len(tickLog) : tickLog[p] = Op(op, w)
StayOpen == SelectSeq(tickStart.windows, LAMBDA w : w \notin tickStart.close)

\* C5: after a tick the window set is exactly the windows whose close flag
\* was not set, in their original order.
C5_RemovalExact ==
    loopPc = "tickEnd" => windows = StayOpen

\* C6: once the master window's close flag is set while the loop runs, the
\* loop eventually consumes the shutdown signal and returns.
C6_MasterCloseTerminates ==
    (loopPc \notin {"idle", "exited"} /\ Master \in Range(windows) /\ shouldClose[Master])
        ~> (loopPc = "exited")

\* C7: a tick that removes one non-master window removes and destroys no
\* other window, processes every other open window (queue drained, painted
\* if dirty) and leaves the loop running without a shutdown request.
C7_NonMasterCloseIsolated ==
    \A w \in Windows \ {Master} :
        (loopPc \in {"tickEnd", "panicked"} /\ tickStart.close = {w})
            => /\ loopPc = "tickEnd"
               /\ ~dDone
               /\ windows = StayOpen
               /\ \A v \in Range(StayOpen) :
                    /\ v \notin destroyed
                    /\ Logged("drain", v)
                    /\ v \in tickStart.dirty => Logged("paint", v)

\* C8: no texture handle is passed to DeleteTextures twice: dequeuing an
\* object again after its texture was freed deletes nothing.
C8_DeleteAtMostOnce ==
    \A p, q \in 1..Len(deleteLog) :
        p # q => deleteLog[p].texture # deleteLog[q].texture

\* one pass dequeued o1 twice in a row; its texture was deleted once and the
\* second dequeue found no entry
C8_Witness ==
    /\ \E p \in 1..(Len(tickLog) - 1) :
         tickLog[p] = Op("free", "o1") /\ tickLog[p + 1] = Op("free", "o1")
    /\ Len(deleteLog) = 1
    /\ deleteLog[1].object = "o1"
    /\ textures["o1"] = NoTexture

\* C9: in a tick, a window that stays open and whose canvas is not dirty gets
\* no make-context-current, paint or swap-buffers call, and its refreshQueue
\* is drained in that tick.
C9_CleanWindowDrainedNotPainted ==
    loopPc = "tickEnd" =>
        \A w \in Range(StayOpen) :
            /\ Logged("clean", w) =>
                 ~(Logged("current", w) \/ Logged("paint", w) \/ Logged("swap", w))
            /\ (w \notin tickStart.dirty /\ ~dirty[w] /\ ~Logged("paint", w))
                 => Logged("drain", w)

Deleted == {deleteLog[p].texture : p \in 1..Len(deleteLog)}

\* C11: no entry of the textures map holds a handle that was passed to
\* DeleteTextures, and every key freeDirtyTextures removed is the key whose
\* own handle was deleted in that step.
C11_NoStaleEntry ==
    /\ \A o \in Objects : textures[o] > 0 => textures[o] \notin Deleted
    /\ \A p \in 1..Len(deleteLog) : deleteLog[p].obj = deleteLog[p].object

\* the texture of o1 was deleted and its key removed while o2 keeps its entry
C11_Witness ==
    /\ \E p \in 1..Len(deleteLog) : deleteLog[p].object = "o1"
    /\ textures["o1"] = NoTexture
    /\ textures["o2"] > 0

\* C12: no action passed to runOnMain is executed by the calling goroutine
\* while the loop is running.
C12_OnlyLoopExecutes ==
    \A c \in DOMAIN callerPc :
        callerPc[c] = "inline" => loopPc \in {"idle", "exited"}

Count(op, w) == Cardinality({p \in 1..Len(tickLog) : tickLog[p] = Op(op, w)})

\* C14: a tick polls once and processes every window that was open at its
\* start exactly once.
C14_EachWindowOnce ==
    loopPc = "tickEnd" =>
        /\ Count("poll", "-") = 1
        /\ \A w \in Windows :
             Count("drain", w) = (IF w \in Range(tickStart.windows) THEN 1 ELSE 0)

\* C15: a window seen closing is drained, then removed, then destroyed, then
\* (the master only) Quit is called, and a destroyed window gets no
\* make-context-current, paint or swap-buffers call in that tick or later.
C15_TeardownOrder ==
    /\ \A p \in 1..Len(tickLog) :
         /\ tickLog[p].op = "remove"
              => /\ tickLog[p - 1] = Op("drain", tickLog[p].win)
                 /\ p < Len(tickLog) /\ tickLog[p + 1] = Op("destroy", tickLog[p].win)
         /\ tickLog[p].op = "quit"
              => tickLog[p].win = Master /\ tickLog[p - 1] = Op("destroy", Master)
         /\ tickLog[p].op \in {"current", "paint", "swap"}
              => tickLog[p].win \notin destroyed

\* C19: the splice of a tick is never applied with an index that is out of
\* range for d.windows, and it removes only windows whose close flag is set.
C19_SpliceInRange ==
    \A p \in 1..Len(tickLog) :
        /\ tickLog[p].op # "panic"
        /\ tickLog[p].op = "remove" => tickLog[p].win \in tickStart.close

\* C20: once a pass has processed a dequeued object, neither that object nor
\* any object walked from it still has a nonzero handle in the textures map.
C20_WalkedAllFreed ==
    (tickLog # <<>> /\ tickLog[Len(tickLog)].op = "free") =>
        \A x \in Range(walkObjects(tickLog[Len(tickLog)].win)) : textures[x] <= 0

IsPrefix(s, t) == Len(s) <= Len(t) /\ SubSeq(t, 1, Len(s)) = s

\* the objects the running freeDirtyTextures call has processed so far
PassFrees ==
    LET last == CHOOSE p \in 0..Len(tickLog) :
                    /\ p = 0 \/ tickLog[p].op # "free"
                    /\ \A q \in (p + 1)..Len(tickLog) : tickLog[q].op = "free"
    IN [q \in 1..(Len(tickLog) - last) |-> tickLog[last + q].win]

\* C16 as stated: a pass handles only the items that were in the queue when
\* it started; what a producer adds after that waits for the next tick.
C16_PassHandlesSnapshot ==
    loopPc = "free" => IsPrefix(PassFrees, passStart)

\* the freeDirtyTextures call on the current canvas returns in this step
PassEnds == loopPc = "free" /\ (loopPc' # "free" \/ i' # i)

\* C16 (amended): a pass never blocks and returns only when it finds the
\* queue empty, having processed in order everything that was queued when
\* it started and everything that was added before it found the queue empty.
C16_PassDrainsUntilEmpty ==
    /\ [](loopPc = "free" => ENABLED (freeDirtyTexturesOne \/ runGLWindow))
    /\ [][PassEnds => /\ refreshQueue[windowsArr[i]] = <<>>
                      /\ IsPrefix(passStart, PassFrees)]_vars

\* a pass that started with one object queued has processed two
C16_Witness ==
    /\ loopPc = "free"
    /\ Len(passStart) = 1
    /\ Len(PassFrees) = 2

AsyncExecutedOnlyByLoop ==
    \A k \in Asyncs :
        started[Act("async", k)]
            = Cardinality({p \in 1..Len(execLog) : execLog[p] = Act("async", k)})

\* C17 as stated: runOnMainAsync never runs the action inline, and every
\* action dispatched with it is eventually executed by the loop.
C17_AsyncEventuallyRuns ==
    /\ []AsyncExecutedOnlyByLoop
    /\ \A k \in Asyncs : (helperPc[k] = "spawned") ~> (finished[Act("async", k)] = 1)

\* C17 (amended): runOnMainAsync never runs the action inline, and every
\* action dispatched with it is eventually executed by the loop unless the
\* loop exits first.
C17_AsyncRunsUnlessExit ==
    /\ []AsyncExecutedOnlyByLoop
    /\ \A k \in Asyncs :
         (helperPc[k] = "spawned") ~> (finished[Act("async", k)] = 1 \/ loopPc = "exited")

\* the loop, still running and not asked to stop, has executed every
\* dispatched action
C17_Witness ==
    /\ \A k \in Asyncs : finished[Act("async", k)] = 1
    /\ loopPc = "select"
    /\ ~dDone

\* C18: every runOnMain call made off the loop goroutine eventually returns.
C18_SyncEventuallyReturns ==
    \A c \in LiveCallers :
        (callerPc[c] \in {"inline", "parked", "wait"}) ~> (callerPc[c] = "returned")

\* C13: once no call is in progress and every goroutine spawned by Start()
\* is past its initialisation, the ticker is non-nil exactly when the last
\* call was Show() (and it is nil on creation).
C13_TickerTracksVisibility ==
    (barPc = "idle" /\ \A g \in Goroutines : loopGo[g] \in {"none", "ranging"})
        => ((ticker # NoTicker) <=> (lastCall = "Show"))

====
